---- MODULE Spec2Model ----
(***************************************************************************)
(* The escrow contract of src/lib.rs as a state machine.                   *)
(*                                                                         *)
(* The contract owns four persistent collections (assets, transactions,   *)
(* owners, signatures).  Every public method is one atomic call made by an *)
(* account the environment names (env::current_account_id()); a call       *)
(* either returns or panics with the message of the assertion that failed. *)
(* Each method is an operator from the contract before the call to the     *)
(* contract after it together with the outcome; the actions apply the      *)
(* operators and remember the call and the contract before it, so that     *)
(* properties of a single call are state predicates.                       *)
(***************************************************************************)
EXTENDS Integers, Sequences, FiniteSets, TLC

\* ------------------------------------------------------------------ inputs
\* Quantities the callers use: the f64 values 1.0 .. MaxQuantity.  Borsh
\* refuses to store NaN, so every stored quantity compares equal to itself.
MaxQuantity == 2

AccountIds == {"alice", "bob"}
TxNames == {"t1", "t2"}
AssetNames == {"gold", "silver"}
Quantities == 1..MaxQuantity

\* The owner lists handed to the constructor: empty, one owner (bob is then
\* an outsider), and two owners out of order with one of them repeated.
OwnerLists == { <<>>, <<"alice">>, <<"bob", "alice", "bob">> }

\* Placeholder for an argument or a return value a call does not have.
Nil == "nil"

\* ---------------------------------------------------------------- entities
Asset(name, quantity) == [name |-> name, quantity |-> quantity]

\* What a caller may offer as a deposit.
Assets == { Asset(n, q) : n \in AssetNames, q \in Quantities }

\* What the owners write terms for; a deposit can differ from either in its
\* name only, in its quantity only, or in both.
TermAssets == { Asset("gold", 1), Asset("silver", MaxQuantity) }

Transaction(sender, receiver, asset, satisfied) ==
    [sender |-> sender, receiver |-> receiver, asset |-> asset,
     satisfied |-> satisfied]

\* Transaction::new
TransactionNew(sender, receiver, asset) ==
    Transaction(sender, receiver, asset, FALSE)

\* impl PartialEq for Transaction
TransactionEq(a, b) ==
    /\ a.sender = b.sender
    /\ a.receiver = b.receiver
    /\ a.asset.name = b.asset.name
    /\ a.asset.quantity = b.asset.quantity
    /\ a.satisfied = b.satisfied

toggle_satisfied(tx) == [tx EXCEPT !.satisfied = ~tx.satisfied]

\* ------------------------------------------------------------- collections
\* UnorderedMap: a function on the set of keys present.
EmptyMap == [k \in {} |-> Nil]

\* insert that keeps the value a present key already has.
MapInsertIfAbsent(m, k, v) ==
    [x \in DOMAIN m \cup {k} |-> IF x \in DOMAIN m THEN m[x] ELSE v]

MapInsert(m, k, v) == [x \in DOMAIN m \cup {k} |-> IF x = k THEN v ELSE m[x]]

\* remove that removes nothing.
MapRemoveNothing(m, k) == m

MapRemove(m, k) == [x \in DOMAIN m \ {k} |-> m[x]]

\* ---------------------------------------------------------------- outcomes
Ok == "ok"
ErrOwner == "only callable by owner"
ErrNotAgreed == "Not all owners have agreed upon the terms"
ErrAgreed == "Owners have already agreed upon the terms"
ErrNoTx == "Transaction not in contract"
ErrHasDeposit == "Transaction has deposit already"
ErrAssetName == "Asset being deposited does not match asset needed"
ErrQuantity == "quantity needed, quantity deposited"
ErrSender == "Asset needed from sender, not caller"
ErrUnsatisfied == "Cannot execute transaction, sender must deposit"
ErrUnwrap == "called Option::unwrap() on a None value"

\* A call that panics leaves the contract as it was.
Panic(self, msg) == [result |-> msg, ret |-> Nil, self |-> self]

Return(self, ret) == [result |-> Ok, ret |-> ret, self |-> self]

\* ---------------------------------------------------------------- contract
VARIABLES
    assets,        \* UnorderedMap<AccountId, Asset>
    transactions,  \* UnorderedMap<String, Transaction>
    owners,        \* UnorderedSet<AccountId>
    signatures,    \* LookupSet<AccountId>
    owners_in,     \* the list the constructor was given
    call,          \* the last call: method, caller, arguments, outcome
    pre            \* the contract as it was before the last call

vars == <<assets, transactions, owners, signatures, owners_in, call, pre>>

Self ==
    [assets |-> assets, transactions |-> transactions, owners |-> owners,
     signatures |-> signatures]

\* The loop stopping one account short of the end of the list.
RECURSIVE InsertAllButLast(_, _, _)
InsertAllButLast(set, list, i) ==
    IF i >= Len(list) THEN set
    ELSE InsertAllButLast(set \cup {list[i]}, list, i + 1)

\* The loop of Contract::new: insert the accounts of the list one by one.
RECURSIVE InsertAll(_, _, _)
InsertAll(set, list, i) ==
    IF i > Len(list) THEN set
    ELSE InsertAll(set \cup {list[i]}, list, i + 1)

\* Contract::new
new(list) ==
    [assets |-> EmptyMap, transactions |-> EmptyMap,
     owners |-> InsertAll({}, list, 1), signatures |-> {}]

\* The private assertions: TRUE when the assertion passes.
assert_owner(self, curr_user) == curr_user \in self.owners

\* assert_agreement passing as soon as one owner has signed.
assert_agreement_any(self) ==
    self.owners = {} \/ \E owner \in self.owners : owner \in self.signatures

assert_agreement(self) ==
    \A owner \in self.owners : owner \in self.signatures

\* assert_no_agreement failing only once every owner has signed.
assert_no_agreement_until_all(self) ==
    self.owners = {} \/ \E owner \in self.owners : owner \notin self.signatures

assert_no_agreement(self) ==
    \A owner \in self.owners : owner \notin self.signatures

\* assert_txs_satisfied with the assertion inverted.
assert_txs_unsatisfied(self) ==
    \A n \in DOMAIN self.transactions : ~self.transactions[n].satisfied

assert_txs_satisfied(self) ==
    \A n \in DOMAIN self.transactions : self.transactions[n].satisfied

\* Contract::add_tx
add_tx(self, curr_user, tx_name, sender, receiver, asset_type, quantity) ==
    IF ~assert_owner(self, curr_user) THEN Panic(self, ErrOwner)
    ELSE IF ~assert_no_agreement(self) THEN Panic(self, ErrAgreed)
    ELSE LET ass == Asset(asset_type, quantity)
             tx == Transaction(sender, receiver, ass, FALSE)
         IN  Return([self EXCEPT
                        !.transactions = MapInsert(@, tx_name, tx)], Nil)

\* rm_tx without the check that nobody has signed.
rm_tx_unguarded(self, curr_user, tx_name) ==
    IF ~assert_owner(self, curr_user) THEN Panic(self, ErrOwner)
    ELSE Return([self EXCEPT !.transactions = MapRemove(@, tx_name)], Nil)

\* rm_tx panicking when the name is absent.
rm_tx_strict(self, curr_user, tx_name) ==
    IF ~assert_owner(self, curr_user) THEN Panic(self, ErrOwner)
    ELSE IF ~assert_no_agreement(self) THEN Panic(self, ErrAgreed)
    ELSE IF tx_name \notin DOMAIN self.transactions
         THEN Panic(self, ErrNoTx)
    ELSE Return([self EXCEPT !.transactions = MapRemove(@, tx_name)], Nil)

\* Contract::rm_tx
rm_tx(self, curr_user, tx_name) ==
    IF ~assert_owner(self, curr_user) THEN Panic(self, ErrOwner)
    ELSE IF ~assert_no_agreement(self) THEN Panic(self, ErrAgreed)
    ELSE Return([self EXCEPT !.transactions = MapRemove(@, tx_name)], Nil)

\* Contract::get_tx
get_tx(self, tx_name) ==
    IF tx_name \notin DOMAIN self.transactions THEN Panic(self, ErrUnwrap)
    ELSE Return(self, self.transactions[tx_name])

\* The quantity check left out.
F64EqAny(a, b) == TRUE

\* assert_eq! on two f64 values (dep_asset's quantity check).
F64Eq(a, b) == a = b

\* The toggled copy inserted back under its name.
store_tx(txs, tx_name, tx) == MapInsert(txs, tx_name, tx)

\* dep_asset and withdraw_asset bind `tx` to the value UnorderedMap::get
\* returns, which is a copy deserialized from storage; the toggled copy is
\* dropped when the method returns and the map is never written.
drop_tx(txs, tx_name, tx) == txs

\* dep_asset without the check that every owner has signed.
dep_asset_ungated(self, curr_user, asset, tx_name) ==
    IF tx_name \notin DOMAIN self.transactions THEN Panic(self, ErrNoTx)
    ELSE LET tx == self.transactions[tx_name]
         IN  IF tx.satisfied THEN Panic(self, ErrHasDeposit)
             ELSE IF tx.asset.name # asset.name THEN Panic(self, ErrAssetName)
             ELSE IF ~F64Eq(tx.asset.quantity, asset.quantity)
                  THEN Panic(self, ErrQuantity)
             ELSE IF tx.sender # curr_user THEN Panic(self, ErrSender)
             ELSE Return([self EXCEPT
                     !.assets = MapInsert(@, curr_user, asset),
                     !.transactions =
                         drop_tx(@, tx_name, toggle_satisfied(tx))], Nil)

\* Contract::dep_asset
dep_asset(self, curr_user, asset, tx_name) ==
    IF ~assert_agreement(self) THEN Panic(self, ErrNotAgreed)
    ELSE IF tx_name \notin DOMAIN self.transactions THEN Panic(self, ErrNoTx)
    ELSE LET tx == self.transactions[tx_name]
         IN  IF tx.satisfied THEN Panic(self, ErrHasDeposit)
             ELSE IF tx.asset.name # asset.name THEN Panic(self, ErrAssetName)
             ELSE IF ~F64Eq(tx.asset.quantity, asset.quantity)
                  THEN Panic(self, ErrQuantity)
             ELSE IF tx.sender # curr_user THEN Panic(self, ErrSender)
             ELSE Return([self EXCEPT
                     !.assets = MapInsert(@, curr_user, asset),
                     !.transactions =
                         drop_tx(@, tx_name, toggle_satisfied(tx))], Nil)

\* withdraw_asset removing the caller's deposit before it checks the sender.
withdraw_asset_remove_first(self, curr_user, tx_name) ==
    IF tx_name \notin DOMAIN self.transactions THEN Panic(self, ErrNoTx)
    ELSE LET tx == self.transactions[tx_name]
             removed == [self EXCEPT !.assets = MapRemove(@, curr_user)]
         IN  IF tx.sender # curr_user THEN Panic(removed, ErrSender)
             ELSE Return(removed, Nil)

\* Contract::withdraw_asset
withdraw_asset(self, curr_user, tx_name) ==
    IF tx_name \notin DOMAIN self.transactions THEN Panic(self, ErrNoTx)
    ELSE LET tx == self.transactions[tx_name]
         IN  IF tx.sender # curr_user THEN Panic(self, ErrSender)
             ELSE Return([self EXCEPT
                     !.assets = MapRemove(@, curr_user),
                     !.transactions =
                         drop_tx(@, tx_name, toggle_satisfied(tx))], Nil)

\* sign without the owner check.
sign_anyone(self, curr_user) ==
    Return([self EXCEPT !.signatures = @ \cup {curr_user}], Nil)

\* Contract::sign
sign(self, curr_user) ==
    IF ~assert_owner(self, curr_user) THEN Panic(self, ErrOwner)
    ELSE Return([self EXCEPT !.signatures = @ \cup {curr_user}], Nil)

\* The lines execute prints, one per transaction: what goes to whom.
Releases(txs) ==
    { [name |-> txs[n].asset.name, quantity |-> txs[n].asset.quantity,
       receiver |-> txs[n].receiver] : n \in DOMAIN txs }

\* execute resetting the signatures along with the deposits.
execute_reset(self) ==
    IF ~assert_agreement(self) THEN Panic(self, ErrNotAgreed)
    ELSE IF ~assert_txs_satisfied(self) THEN Panic(self, ErrUnsatisfied)
    ELSE Return([self EXCEPT !.assets = EmptyMap, !.signatures = {}],
                Releases(self.transactions))

\* Contract::execute
execute(self) ==
    IF ~assert_agreement(self) THEN Panic(self, ErrNotAgreed)
    ELSE IF ~assert_txs_satisfied(self) THEN Panic(self, ErrUnsatisfied)
    ELSE Return([self EXCEPT !.assets = EmptyMap],
                Releases(self.transactions))

\* ----------------------------------------------------------------- actions
\* One call: the contract becomes what the method leaves, and the call and
\* the contract before it are remembered.
Call(op, curr_user, tx_name, tx, asset, out) ==
    /\ assets' = out.self.assets
    /\ transactions' = out.self.transactions
    /\ owners' = out.self.owners
    /\ signatures' = out.self.signatures
    /\ owners_in' = owners_in
    /\ call' = [op |-> op, curr_user |-> curr_user, tx_name |-> tx_name,
                tx |-> tx, asset |-> asset,
                result |-> out.result, ret |-> out.ret]
    /\ pre' = Self

Init ==
    \E list \in OwnerLists :
        /\ owners_in = list
        /\ assets = new(list).assets
        /\ transactions = new(list).transactions
        /\ owners = new(list).owners
        /\ signatures = new(list).signatures
        /\ call = [op |-> "new", curr_user |-> Nil, tx_name |-> Nil,
                   tx |-> Nil, asset |-> Nil, result |-> Ok, ret |-> Nil]
        /\ pre = new(list)

AddTx ==
    \E curr_user \in AccountIds, tx_name \in TxNames, sender \in AccountIds,
       receiver \in AccountIds, ass \in TermAssets :
        Call("add_tx", curr_user, tx_name,
             TransactionNew(sender, receiver, ass), Nil,
             add_tx(Self, curr_user, tx_name, sender, receiver, ass.name,
                    ass.quantity))

RmTx ==
    \E curr_user \in AccountIds, tx_name \in TxNames :
        Call("rm_tx", curr_user, tx_name, Nil, Nil,
             rm_tx(Self, curr_user, tx_name))

GetTx ==
    \E tx_name \in TxNames :
        Call("get_tx", Nil, tx_name, Nil, Nil, get_tx(Self, tx_name))

DepAsset ==
    \E curr_user \in AccountIds, asset \in Assets, tx_name \in TxNames :
        Call("dep_asset", curr_user, tx_name, Nil, asset,
             dep_asset(Self, curr_user, asset, tx_name))

WithdrawAsset ==
    \E curr_user \in AccountIds, tx_name \in TxNames :
        Call("withdraw_asset", curr_user, tx_name, Nil, Nil,
             withdraw_asset(Self, curr_user, tx_name))

Sign ==
    \E curr_user \in AccountIds :
        Call("sign", curr_user, Nil, Nil, Nil, sign(Self, curr_user))

Execute ==
    Call("execute", Nil, Nil, Nil, Nil, execute(Self))

Next ==
    \/ AddTx
    \/ RmTx
    \/ GetTx
    \/ DepAsset
    \/ WithdrawAsset
    \/ Sign
    \/ Execute

Spec == Init /\ [][Next]_vars

\* ------------------------------------------------------------ properties
Unsigned(c) == c.owners \ c.signatures

Unsatisfied(c) == { n \in DOMAIN c.transactions : ~c.transactions[n].satisfied }

\* C1: execute returns only if, before the call, every owner was in the
\* signature set and every transaction was satisfied; with any owner's
\* signature missing it panics with the consensus message.
C1_ExecuteNeedsUnanimity ==
    call.op = "execute" =>
        /\ call.result = Ok =>
               /\ pre.owners \subseteq pre.signatures
               /\ Unsatisfied(pre) = {}
        /\ Unsigned(pre) # {} => call.result = ErrNotAgreed

\* execute refused because exactly one of two owners has not signed.
C1_Witness ==
    /\ call.op = "execute"
    /\ call.result = ErrNotAgreed
    /\ Cardinality(pre.owners) = 2
    /\ Cardinality(Unsigned(pre)) = 1

\* C2: with a one-term bundle every owner has signed and whose sender's
\* deposit (exactly the term's asset) is in the deposit map, execute returns
\* and leaves the deposit map empty.
C2_SettlementReached ==
    ( /\ call.op = "execute"
      /\ pre.owners # {}
      /\ pre.owners \subseteq pre.signatures
      /\ Cardinality(DOMAIN pre.transactions) = 1
      /\ \A n \in DOMAIN pre.transactions :
            /\ pre.transactions[n].sender \in DOMAIN pre.assets
            /\ pre.assets[pre.transactions[n].sender]
                   = pre.transactions[n].asset )
    => (call.result = Ok /\ assets = EmptyMap)

\* C3: a dep_asset that returns has recorded the caller's asset and left the
\* stored transaction satisfied, as get_tx and execute then see it; the
\* other transactions, the owners and the signatures are as before.
C3_DepositSatisfiesTerm ==
    (call.op = "dep_asset" /\ call.result = Ok) =>
        /\ call.curr_user \in DOMAIN assets
        /\ assets[call.curr_user] = call.asset
        /\ transactions[call.tx_name].satisfied
        /\ get_tx(Self, call.tx_name).ret.satisfied
        /\ DOMAIN transactions = DOMAIN pre.transactions
        /\ \A n \in DOMAIN transactions \ {call.tx_name} :
               transactions[n] = pre.transactions[n]
        /\ owners = pre.owners
        /\ signatures = pre.signatures

\* C4: dep_asset on an existing transaction returns only if the asset equals
\* the transaction's asset in name and in quantity and the caller is its
\* sender; otherwise it panics, the satisfied flag of the transaction stays
\* as it was (false) and the deposit map is unchanged.
C4_DepositExactMatch ==
    (call.op = "dep_asset" /\ call.tx_name \in DOMAIN pre.transactions) =>
        LET tx == pre.transactions[call.tx_name]
            match ==
                /\ tx.asset.name = call.asset.name
                /\ tx.asset.quantity = call.asset.quantity
                /\ tx.sender = call.curr_user
        IN  /\ call.result = Ok => match
            /\ ~match =>
                   /\ call.result # Ok
                   /\ call.tx_name \in DOMAIN transactions
                   /\ ~transactions[call.tx_name].satisfied
                   /\ assets = pre.assets

\* A ratified bundle's sender offering the right asset name in the wrong
\* quantity.
C4_Witness ==
    /\ call.op = "dep_asset"
    /\ call.tx_name \in DOMAIN pre.transactions
    /\ pre.transactions[call.tx_name].sender = call.curr_user
    /\ pre.transactions[call.tx_name].asset.name = call.asset.name
    /\ pre.transactions[call.tx_name].asset.quantity # call.asset.quantity
    /\ call.result = ErrQuantity

\* C5 as stated: once the signature set is non-empty, add_tx and rm_tx panic
\* with the already-agreed message whoever calls, and the transactions are
\* unchanged.
C5_EditAfterSignStateError ==
    (call.op \in {"add_tx", "rm_tx"} /\ pre.signatures # {}) =>
        /\ call.result = ErrAgreed
        /\ transactions = pre.transactions

\* C5 amended: once the signature set is non-empty, add_tx and rm_tx panic
\* and leave the transactions unchanged: with the already-agreed message
\* when the caller is an owner, with the owner-only message when not.
C5_EditAfterSignFails ==
    (call.op \in {"add_tx", "rm_tx"} /\ pre.signatures # {}) =>
        /\ call.result =
               IF call.curr_user \in pre.owners THEN ErrAgreed ELSE ErrOwner
        /\ transactions = pre.transactions

\* An owner who has not signed removing an existing term after the other
\* owner signed.
C5_Witness ==
    /\ call.op = "rm_tx"
    /\ call.tx_name \in DOMAIN pre.transactions
    /\ pre.signatures # {}
    /\ call.curr_user \in pre.owners \ pre.signatures
    /\ call.result = ErrAgreed

\* C6: when every owner has signed and some transaction is unsatisfied,
\* execute panics with the unsatisfied message and the deposit map is what
\* it was before the call.
C6_AllOrNothing ==
    ( /\ call.op = "execute"
      /\ pre.owners \subseteq pre.signatures
      /\ Unsatisfied(pre) # {} )
    => (call.result = ErrUnsatisfied /\ assets = pre.assets)

\* execute refused on a two-term bundle with a deposit in escrow.
C6_Witness ==
    /\ call.op = "execute"
    /\ call.result = ErrUnsatisfied
    /\ Cardinality(DOMAIN pre.transactions) = 2
    /\ pre.assets # EmptyMap
    /\ assets = pre.assets

\* C7: a call that panics, whatever the method, leaves the owners, the
\* signatures, the transactions and the deposits as they were.
C7_FailureChangesNothing ==
    call.result # Ok => Self = pre

\* withdraw_asset refused for a caller who is not the sender but has a
\* deposit of their own in escrow.
C7_Witness ==
    /\ call.op = "withdraw_asset"
    /\ call.result = ErrSender
    /\ call.curr_user \in DOMAIN pre.assets

\* C8: an execute that returns leaves the deposit map empty and the
\* transactions, the signatures and the owners as they were.
C8_ExecuteOnlyClearsDeposits ==
    (call.op = "execute" /\ call.result = Ok) =>
        /\ assets = EmptyMap
        /\ transactions = pre.transactions
        /\ signatures = pre.signatures
        /\ owners = pre.owners

\* execute returning for two owners who both signed.
C8_Witness ==
    /\ call.op = "execute"
    /\ call.result = Ok
    /\ Cardinality(pre.signatures) = 2

\* C9: a withdraw_asset by the sender of a term whose deposit is in escrow
\* removes the sender's deposit, leaves the term unsatisfied, and an execute
\* called next panics with the unsatisfied message.
C9_WithdrawReversesDeposit ==
    ( /\ call.op = "withdraw_asset"
      /\ call.result = Ok
      /\ call.curr_user \in DOMAIN pre.assets
      /\ pre.assets[call.curr_user] = pre.transactions[call.tx_name].asset )
    => /\ call.curr_user \notin DOMAIN assets
       /\ ~transactions[call.tx_name].satisfied
       /\ execute(Self).result = ErrUnsatisfied

\* The sender of the only term withdrawing the deposit made on it.
C9_Witness ==
    /\ call.op = "withdraw_asset"
    /\ call.result = Ok
    /\ DOMAIN pre.transactions = {call.tx_name}
    /\ call.curr_user \in DOMAIN pre.assets
    /\ pre.assets[call.curr_user] = pre.transactions[call.tx_name].asset
    /\ call.curr_user \notin DOMAIN assets

\* C10: the owner set is never empty.
C10_OwnersNonEmpty == owners # {}

\* The transactions of c other than the one named n.
OtherTxs(c, n) == [x \in DOMAIN c.transactions \ {n} |-> c.transactions[x]]

\* C11: sign returns exactly when the caller is an owner; a caller who is
\* not panics with the owner-only message and nothing changes; a returning
\* sign adds the caller to the signatures, and signing once more leaves the
\* contract exactly as the first signature left it.
C11_SignOwnerOnlyIdempotent ==
    call.op = "sign" =>
        /\ call.result = Ok <=> call.curr_user \in pre.owners
        /\ call.curr_user \notin pre.owners =>
               (call.result = ErrOwner /\ Self = pre)
        /\ call.result = Ok =>
               /\ Self = [pre EXCEPT !.signatures = @ \cup {call.curr_user}]
               /\ sign(Self, call.curr_user).result = Ok
               /\ sign(Self, call.curr_user).self = Self

\* An owner signing a second time, after which nothing has changed.
C11_Witness ==
    /\ call.op = "sign"
    /\ call.result = Ok
    /\ call.curr_user \in pre.signatures
    /\ Self = pre

\* C12: add_tx by an owner while nobody has signed returns; get_tx of the
\* name then returns a transaction equal to Transaction::new of the
\* arguments (unsatisfied), whether the name was present or not; the other
\* transactions are unchanged; removing the name and adding it again with
\* the same arguments gives the same contract.
C12_AddTxStoresFreshTerm ==
    ( /\ call.op = "add_tx"
      /\ call.curr_user \in pre.owners
      /\ pre.signatures = {} )
    => /\ call.result = Ok
       /\ get_tx(Self, call.tx_name).result = Ok
       /\ TransactionEq(get_tx(Self, call.tx_name).ret, call.tx)
       /\ ~get_tx(Self, call.tx_name).ret.satisfied
       /\ OtherTxs(Self, call.tx_name) = OtherTxs(pre, call.tx_name)
       /\ LET removed == rm_tx(Self, call.curr_user, call.tx_name)
              readded == add_tx(removed.self, call.curr_user, call.tx_name,
                                call.tx.sender, call.tx.receiver,
                                call.tx.asset.name, call.tx.asset.quantity)
          IN  /\ removed.result = Ok
              /\ call.tx_name \notin DOMAIN removed.self.transactions
              /\ readded.result = Ok
              /\ readded.self = Self

\* add_tx overwriting a different term of the same name, next to another.
C12_Witness ==
    /\ call.op = "add_tx"
    /\ call.result = Ok
    /\ call.tx_name \in DOMAIN pre.transactions
    /\ ~TransactionEq(pre.transactions[call.tx_name], call.tx)
    /\ DOMAIN OtherTxs(pre, call.tx_name) # {}
    /\ TransactionEq(transactions[call.tx_name], call.tx)

\* C13: rm_tx by an owner while nobody has signed returns; the name is then
\* absent and the other transactions are unchanged; when the name was
\* absent already the whole contract is unchanged.
C13_RmTxRemovesOrNoOp ==
    ( /\ call.op = "rm_tx"
      /\ call.curr_user \in pre.owners
      /\ pre.signatures = {} )
    => /\ call.result = Ok
       /\ call.tx_name \notin DOMAIN transactions
       /\ OtherTxs(Self, call.tx_name) = OtherTxs(pre, call.tx_name)
       /\ assets = pre.assets
       /\ owners = pre.owners
       /\ signatures = pre.signatures
       /\ call.tx_name \notin DOMAIN pre.transactions => Self = pre

\* rm_tx of a name that is absent while another term is present.
C13_Witness ==
    /\ call.op = "rm_tx"
    /\ call.result = Ok
    /\ call.tx_name \notin DOMAIN pre.transactions
    /\ pre.transactions # EmptyMap
    /\ Self = pre

\* C14: a dep_asset on the only term of a ratified bundle, by its sender and
\* with its asset, while the deposit made on that term is still in escrow,
\* panics with the has-deposit message and changes nothing.
C14_SecondDepositRefused ==
    ( /\ call.op = "dep_asset"
      /\ pre.owners \subseteq pre.signatures
      /\ DOMAIN pre.transactions = {call.tx_name}
      /\ pre.transactions[call.tx_name].sender = call.curr_user
      /\ pre.transactions[call.tx_name].asset = call.asset
      /\ call.curr_user \in DOMAIN pre.assets
      /\ pre.assets[call.curr_user] = call.asset )
    => (call.result = ErrHasDeposit /\ Self = pre)

\* C15 as stated, for a contract that has owners: after an execute that
\* returned, an execute called next panics with the unsatisfied message.
C15_SecondExecuteFails ==
    (call.op = "execute" /\ call.result = Ok /\ owners # {}) =>
        execute(Self).result = ErrUnsatisfied

\* C15 amended: after an execute that returned, an execute called next
\* returns again and changes nothing.
C15_SecondExecuteReturns ==
    (call.op = "execute" /\ call.result = Ok) =>
        /\ execute(Self).result = Ok
        /\ execute(Self).self = Self

\* execute returning for a contract that has an owner, all of them signed.
C15_Witness ==
    /\ call.op = "execute"
    /\ call.result = Ok
    /\ owners # {}
    /\ owners \subseteq signatures
    /\ assets = EmptyMap

\* C16: withdraw_asset by the sender of a term that is not satisfied returns
\* and leaves the stored term satisfied, the sender having no deposit.
C16_WithdrawMarksSatisfied ==
    ( /\ call.op = "withdraw_asset"
      /\ call.tx_name \in DOMAIN pre.transactions
      /\ pre.transactions[call.tx_name].sender = call.curr_user
      /\ ~pre.transactions[call.tx_name].satisfied )
    => /\ call.result = Ok
       /\ transactions[call.tx_name].satisfied
       /\ call.curr_user \notin DOMAIN assets

\* The parts of a transaction that add_tx writes and a deposit leaves alone.
Terms(tx) == [sender |-> tx.sender, receiver |-> tx.receiver,
              asset |-> tx.asset]

\* C17: no call removes a signature, so a contract every owner has signed
\* stays so; and a call made once somebody has signed leaves the names of
\* the transactions and each one's sender, receiver and asset as they were.
C17_RatificationOneWay ==
    /\ pre.signatures \subseteq signatures
    /\ pre.owners \subseteq pre.signatures => owners \subseteq signatures
    /\ pre.signatures # {} =>
           /\ DOMAIN transactions = DOMAIN pre.transactions
           /\ \A n \in DOMAIN transactions :
                  Terms(transactions[n]) = Terms(pre.transactions[n])

\* An owner's rm_tx of an existing term attempted after both owners signed.
C17_Witness ==
    /\ call.op = "rm_tx"
    /\ call.curr_user \in pre.owners
    /\ call.tx_name \in DOMAIN pre.transactions
    /\ Cardinality(pre.signatures) = 2
    /\ pre.owners \subseteq pre.signatures
    /\ owners \subseteq signatures
    /\ call.tx_name \in DOMAIN transactions

\* C18: dep_asset panics with the consensus message and changes nothing
\* whenever some owner has not signed, whatever the term, asset and caller;
\* withdraw_asset by the sender of an existing term returns whoever signed.
C18_DepositGatedOnRatification ==
    /\ (call.op = "dep_asset" /\ Unsigned(pre) # {}) =>
           (call.result = ErrNotAgreed /\ Self = pre)
    /\ ( /\ call.op = "withdraw_asset"
         /\ call.tx_name \in DOMAIN pre.transactions
         /\ pre.transactions[call.tx_name].sender = call.curr_user )
       => call.result = Ok

\* The sender of an unsatisfied term offering exactly its asset while one
\* of two owners has not signed.
C18_Witness ==
    /\ call.op = "dep_asset"
    /\ call.tx_name \in DOMAIN pre.transactions
    /\ pre.transactions[call.tx_name].sender = call.curr_user
    /\ pre.transactions[call.tx_name].asset = call.asset
    /\ ~pre.transactions[call.tx_name].satisfied
    /\ Cardinality(Unsigned(pre)) = 1
    /\ pre.signatures # {}
    /\ call.result = ErrNotAgreed

\* The deposit map of c holds, for the sender of transaction n, exactly the
\* asset the transaction asks for.
Backed(c, n) ==
    /\ c.transactions[n].sender \in DOMAIN c.assets
    /\ c.assets[c.transactions[n].sender] = c.transactions[n].asset

\* C19: a stored transaction is satisfied only if its asset is in escrow for
\* its sender, and execute returns only if that was so for every
\* transaction before the call.
C19_EscrowBacking ==
    /\ \A n \in DOMAIN transactions :
           transactions[n].satisfied => Backed(Self, n)
    /\ (call.op = "execute" /\ call.result = Ok) =>
           \A n \in DOMAIN pre.transactions : Backed(pre, n)

\* execute refused for a ratified bundle of two terms of one sender of which
\* one is in escrow and the other is not.
C19_Witness ==
    /\ call.op = "execute"
    /\ call.result # Ok
    /\ pre.owners \subseteq pre.signatures
    /\ \E n, m \in DOMAIN pre.transactions :
           /\ n # m
           /\ pre.transactions[n].sender = pre.transactions[m].sender
           /\ Backed(pre, n)
           /\ ~Backed(pre, m)

\* C20: every signature is an owner's, the owners are the accounts of the
\* list the constructor was given, and every deposit is the asset of some
\* transaction whose sender is the depositor.
C20_SignersOwnersDeposits ==
    /\ signatures \subseteq owners
    /\ owners = { owners_in[i] : i \in DOMAIN owners_in }
    /\ \A p \in DOMAIN assets :
           \E n \in DOMAIN transactions :
               /\ transactions[n].sender = p
               /\ transactions[n].asset = assets[p]

\* Two owners given in a list of three, both signed, a deposit in escrow.
C20_Witness ==
    /\ Len(owners_in) = 3
    /\ Cardinality(owners) = 2
    /\ signatures = owners
    /\ assets # EmptyMap

====
